---- MODULE Spec2Model ----
(***************************************************************************)
(* Model of section_3/app.py: the voice secretary's interaction handler    *)
(* (speech-to-text -> agent run -> text-to-speech), its to-do tools and    *)
(* the reset handler, together with the Gradio wiring that feeds the       *)
(* returned transcript back into the session state.                        *)
(*                                                                         *)
(* Text is a sequence of characters; the fixed Japanese message literals   *)
(* of the source are single tokens with ASCII names.                       *)
(***************************************************************************)
EXTENDS Integers, Sequences, FiniteSets, TLC

\* ---- bounds -------------------------------------------------------------
MaxTurns == 5      \* longest transcript explored
MaxTodo == 2       \* longest to-do list explored
MaxSession == 2    \* most agent runs remembered by the session

\* ---- values -------------------------------------------------------------
Space == " "
Whitespace == {Space}

\* Python's None for an optional text (text_input, tr.text, final_output)
None == <<"None">>

\* what the user types or says: nothing, blanks, padded and spaced text
TextInputs ==
    {None, <<>>, <<Space>>, <<Space, "a", Space>>, <<"a", Space, "b">>}

\* result.final_output of the agent run
FinalOutputs == {None, <<Space>>, <<"o", Space>>}

\* the task argument the agent passes to add_todo
Tasks == {<<>>, <<Space>>, <<Space, "a">>, <<"b", Space>>}

\* str(e) of the exception raised by an external call
Errs == {<<>>, <<"x">>}

\* gr.Audio(type="filepath") yields None or the path of the recording
AudioFiles == {"None", "rec.wav"}
Voices == {"alloy", "nova"}
\* uuid4().hex of the reply file
Uuids == {"u1", "u2"}
NoPath == "None"

\* ---- message literals ---------------------------------------------------
GREETING == <<"GREETING">>
PROMPT == <<"PLEASE_SPEAK_OR_TYPE">>
STT_ERROR == <<"STT_ERROR: ">>
AGENT_ERROR == <<"AGENT_ERROR: ">>
TTS_ERROR == <<"TTS_ERROR: ">>

Turn(r, c) == [role |-> r, content |-> c]

\* ---- pure helpers -------------------------------------------------------
\* x or ""
OrEmpty(x) == IF x = None THEN <<>> ELSE x

RECURSIVE lstrip(_)
lstrip(s) == IF s # <<>> /\ Head(s) \in Whitespace THEN lstrip(Tail(s)) ELSE s

RECURSIVE rstrip(_)
rstrip(s) ==
    IF s # <<>> /\ s[Len(s)] \in Whitespace
    THEN rstrip(SubSeq(s, 1, Len(s) - 1))
    ELSE s

\* the input taken as typed, not stripped
strip_missing(s) == s

\* str.strip()
strip(s) == rstrip(lstrip(s))

\* truthiness of a str / path
Truthy(s) == s # <<>>
AudioGiven(a) == a # "None"

\* a fresh list instead of the transcript passed in
OrEmptyList_fresh(m) == <<>>

\* messages or []
OrEmptyList(m) == IF Len(m) = 0 THEN <<>> ELSE m

IsPrefix(p, s) == Len(p) <= Len(s) /\ SubSeq(s, 1, Len(p)) = p

VARIABLES
    state,       \* gr.State: the session transcript
    chat,        \* gr.Chatbot value shown in the UI
    audio_out,   \* gr.Audio output value
    TODO,        \* the process-wide to-do list
    session,     \* number of agent runs stored in the SQLiteSession
    handler,     \* handler the current UI event runs
    pc,          \* position of that handler
    audio_file,  \* arguments and locals of handle_interaction
    text_input,
    voice,
    stt_text,    \* tr.text returned by the transcription endpoint
    messages,
    user_text,
    bot_text,
    tts_path,
    calls,       \* external calls made by the current invocation, in order
    ttsArg,      \* text handed to text_to_speech
    raised,      \* exceptions caught by the current invocation
    toolResult   \* last tool call of the running agent and what it returned

vars == <<state, chat, audio_out, TODO, session, handler, pc, audio_file,
          text_input, voice, stt_text, messages, user_text, bot_text,
          tts_path, calls, ttsArg, raised, toolResult>>

\* an exception caught by a handler: the call that raised and str(e)
Caught(c, e) == [call |-> c, e |-> e]

NoTool == [name |-> "none", arg |-> <<>>, ret |-> <<>>, count |-> 0]

Init ==
    /\ state = <<Turn("assistant", GREETING)>>
    /\ chat = <<Turn("assistant", GREETING)>>
    /\ audio_out = NoPath
    /\ TODO = <<>>
    /\ session = 0
    /\ handler = "none"
    /\ pc = "idle"
    /\ audio_file = "None"
    /\ text_input = None
    /\ voice = "alloy"
    /\ stt_text = None
    /\ messages = <<>>
    /\ user_text = <<>>
    /\ bot_text = <<>>
    /\ tts_path = NoPath
    /\ calls = <<>>
    /\ ttsArg = <<>>
    /\ raised = {}
    /\ toolResult = NoTool

\* ---- handle_interaction -------------------------------------------------
\* lines 83-91: the empty-input guard, the user turn and the call of
\* Runner.run, applied to the messages and the resolved input
AfterInput(msgs, text, log) ==
    IF ~Truthy(text)
    THEN /\ messages' = Append(msgs, Turn("assistant", PROMPT))
         /\ tts_path' = NoPath
         /\ calls' = log
         /\ pc' = "ret"
    ELSE /\ messages' = Append(msgs, Turn("user", text))
         /\ tts_path' = tts_path
         /\ calls' = Append(log, "run")
         /\ pc' = "run"

\* send_btn.click: lines 72-74 and, without audio, lines 80-91
HandleInteraction(a, t, v) ==
    /\ pc = "idle"
    /\ Len(state) + 3 <= MaxTurns
    /\ session < MaxSession
    /\ handler' = "handle_interaction"
    /\ audio_file' = a
    /\ text_input' = t
    /\ voice' = v
    /\ stt_text' = None
    /\ bot_text' = <<>>
    /\ ttsArg' = <<>>
    /\ raised' = {}
    /\ IF AudioGiven(a)
       THEN /\ messages' = OrEmptyList(state)
            /\ user_text' = <<>>
            /\ tts_path' = NoPath
            /\ calls' = <<"stt">>
            /\ pc' = "stt"
       ELSE /\ user_text' = strip(OrEmpty(t))
            /\ AfterInput(OrEmptyList(state), user_text', <<>>)
    /\ UNCHANGED <<state, chat, audio_out, TODO, session, toolResult>>

\* speech_to_text returns: lines 19, 76, 83-91
SpeechToTextOk(tr) ==
    /\ pc = "stt"
    /\ stt_text' = tr
    /\ user_text' = strip(OrEmpty(tr))
    /\ AfterInput(messages, user_text', calls)
    /\ UNCHANGED <<state, chat, audio_out, TODO, session, handler, audio_file,
                   text_input, voice, bot_text, ttsArg, raised, toolResult>>

\* speech_to_text raises: lines 77-79, 83-91
SpeechToTextFail(e) ==
    /\ pc = "stt"
    /\ user_text' = <<>>
    /\ raised' = raised \cup {Caught("stt", e)}
    /\ AfterInput(Append(messages, Turn("assistant", STT_ERROR \o e)),
                  user_text', calls)
    /\ UNCHANGED <<state, chat, audio_out, TODO, session, handler, audio_file,
                   text_input, stt_text, voice, bot_text, ttsArg, toolResult>>

\* ---- tools, called by the running agent ---------------------------------
\* add_todo appending the task as given, not trimmed
add_todo_list_untrimmed(todo, task) ==
    IF ~Truthy(strip(task)) THEN todo ELSE Append(todo, task)

\* add_todo testing the task, not the trimmed task, for emptiness
add_todo_list_unguarded(todo, task) ==
    IF ~Truthy(task) THEN todo ELSE Append(todo, strip(task))

\* add_todo, lines 35-39: the list afterwards
add_todo_list(todo, task) ==
    IF ~Truthy(strip(task)) THEN todo ELSE Append(todo, strip(task))

\* add_todo, lines 35-39: the message returned; the f-string is kept as its
\* literal part, the interpolated task and the interpolated count
add_todo_ret(todo, task) ==
    IF ~Truthy(strip(task))
    THEN [name |-> "add_todo", arg |-> task, ret |-> <<"EMPTY_TASK_REJECTED">>,
          count |-> 0]
    ELSE [name |-> "add_todo", arg |-> task, ret |-> <<"TASK_ADDED: ">> \o task,
          count |-> Len(add_todo_list(todo, task))]

\* list_todo, lines 42-43
list_todo(todo) == todo

\* clear_todo rebinding a local name, the shared list untouched
clear_todo_list_rebound(todo) == todo

\* clear_todo, lines 46-48: the list afterwards
clear_todo_list(todo) == <<>>

AddTodo(task) ==
    /\ pc = "run"
    /\ Len(add_todo_list(TODO, task)) <= MaxTodo
    /\ TODO' = add_todo_list(TODO, task)
    /\ toolResult' = add_todo_ret(TODO, task)
    /\ UNCHANGED <<state, chat, audio_out, session, handler, pc, audio_file,
                   text_input, stt_text, voice, messages, user_text, bot_text,
                   tts_path, calls, ttsArg, raised>>

ListTodo ==
    /\ pc = "run"
    /\ toolResult' = [name |-> "list_todo", arg |-> <<>>,
                      ret |-> list_todo(TODO), count |-> 0]
    /\ UNCHANGED <<state, chat, audio_out, TODO, session, handler, pc,
                   audio_file, text_input, stt_text, voice, messages,
                   user_text, bot_text, tts_path, calls, ttsArg, raised>>

ClearTodo ==
    /\ pc = "run"
    /\ TODO' = clear_todo_list(TODO)
    /\ toolResult' = [name |-> "clear_todo", arg |-> <<>>,
                      ret |-> <<"ALL_TASKS_DELETED">>, count |-> 0]
    /\ UNCHANGED <<state, chat, audio_out, session, handler, pc, audio_file,
                   text_input, stt_text, voice, messages, user_text, bot_text,
                   tts_path, calls, ttsArg, raised>>

\* ---- agent run ----------------------------------------------------------
\* lines 96-101: the reply turn and the call of text_to_speech
AfterAgent(text) ==
    /\ bot_text' = text
    /\ messages' = Append(messages, Turn("assistant", text))
    /\ tts_path' = NoPath
    /\ calls' = Append(calls, "tts")
    /\ ttsArg' = text
    /\ toolResult' = NoTool
    /\ pc' = "tts"

\* Runner.run returns: lines 91-92, 96-101
RunnerOk(out) ==
    /\ pc = "run"
    /\ session' = session + 1
    /\ AfterAgent(strip(OrEmpty(out)))
    /\ UNCHANGED <<state, chat, audio_out, TODO, handler, audio_file,
                   text_input, stt_text, voice, user_text, raised>>

\* a failed run leaving the reply blank
RunnerFail_blank(e, kept) ==
    /\ pc = "run"
    /\ session' = session + kept
    /\ raised' = raised \cup {Caught("run", e)}
    /\ AfterAgent(<<>>)
    /\ UNCHANGED <<state, chat, audio_out, TODO, handler, audio_file,
                   text_input, stt_text, voice, user_text>>

\* a failed run tried once more before the apology
RunnerFail_retry(e, kept) ==
    /\ pc = "run"
    /\ session' = session + kept
    /\ raised' = raised \cup {Caught("run", e)}
    /\ IF Len(calls) < 3
       THEN /\ calls' = Append(calls, "run")
            /\ UNCHANGED <<bot_text, messages, tts_path, ttsArg, toolResult, pc>>
       ELSE AfterAgent(AGENT_ERROR \o e)
    /\ UNCHANGED <<state, chat, audio_out, TODO, handler, audio_file,
                   text_input, stt_text, voice, user_text>>

\* Runner.run raises: lines 93-94, 96-101; what the session keeps of a failed
\* run is up to the runtime
RunnerFail(e, kept) ==
    /\ pc = "run"
    /\ session' = session + kept
    /\ raised' = raised \cup {Caught("run", e)}
    /\ AfterAgent(AGENT_ERROR \o e)
    /\ UNCHANGED <<state, chat, audio_out, TODO, handler, audio_file,
                   text_input, stt_text, voice, user_text>>

\* ---- synthesis ----------------------------------------------------------
\* text_to_speech returns: lines 22-29, 101, 105
TextToSpeechOk(u) ==
    /\ pc = "tts"
    /\ tts_path' = "reply_" \o u \o ".mp3"
    /\ pc' = "ret"
    /\ UNCHANGED <<state, chat, audio_out, TODO, session, handler, audio_file,
                   text_input, stt_text, voice, messages, user_text, bot_text,
                   calls, ttsArg, raised, toolResult>>

\* a failed synthesis whose error turn takes the place of the reply turn
TextToSpeechFail_replace(e) ==
    /\ pc = "tts"
    /\ messages' = [messages EXCEPT
                       ![Len(messages)] = Turn("assistant", TTS_ERROR \o e)]
    /\ raised' = raised \cup {Caught("tts", e)}
    /\ pc' = "ret"
    /\ UNCHANGED <<state, chat, audio_out, TODO, session, handler, audio_file,
                   text_input, stt_text, voice, user_text, bot_text, tts_path,
                   calls, ttsArg, toolResult>>

\* text_to_speech raises: lines 102-105
TextToSpeechFail(e) ==
    /\ pc = "tts"
    /\ messages' = Append(messages, Turn("assistant", TTS_ERROR \o e))
    /\ raised' = raised \cup {Caught("tts", e)}
    /\ pc' = "ret"
    /\ UNCHANGED <<state, chat, audio_out, TODO, session, handler, audio_file,
                   text_input, stt_text, voice, user_text, bot_text, tts_path,
                   calls, ttsArg, toolResult>>

\* ---- UI wiring ----------------------------------------------------------
\* outputs=[chat, audio_out] of send_btn.click, lines 142-146
Return ==
    /\ pc = "ret"
    /\ chat' = messages
    /\ audio_out' = tts_path
    /\ pc' = "then"
    /\ UNCHANGED <<state, TODO, session, handler, audio_file, text_input,
                   stt_text, voice, messages, user_text, bot_text, tts_path,
                   calls, ttsArg, raised, toolResult>>

\* clear_all, lines 107-113, with outputs=[chat, audio_out] of
\* clear_btn.click; clear_session either empties the session or raises
clear_all_chat == <<Turn("assistant", GREETING)>>

\* clear_all letting the exception of clear_session escape: the outputs keep
\* their values
ClearAll_uncaught(ok) ==
    /\ pc = "idle"
    /\ handler' = "clear_all"
    /\ TODO' = <<>>
    /\ session' = IF ok THEN 0 ELSE session
    /\ raised' = IF ok THEN {} ELSE {Caught("clear_session", <<>>)}
    /\ chat' = IF ok THEN clear_all_chat ELSE chat
    /\ audio_out' = IF ok THEN NoPath ELSE audio_out
    /\ calls' = <<>>
    /\ pc' = "then"
    /\ UNCHANGED <<state, audio_file, text_input, stt_text, voice, messages,
                   user_text, bot_text, tts_path, ttsArg, toolResult>>

ClearAll(ok) ==
    /\ pc = "idle"
    /\ handler' = "clear_all"
    /\ TODO' = <<>>
    /\ session' = IF ok THEN 0 ELSE session
    /\ raised' = IF ok THEN {} ELSE {Caught("clear_session", <<>>)}
    /\ chat' = clear_all_chat
    /\ audio_out' = NoPath
    /\ calls' = <<>>
    /\ pc' = "then"
    /\ UNCHANGED <<state, audio_file, text_input, stt_text, voice, messages,
                   user_text, bot_text, tts_path, ttsArg, toolResult>>

\* .then(fn=lambda h, *_: h, inputs=[chat], outputs=[state]), lines 146, 150;
\* the arguments and locals of the handler that returned are gone
Then ==
    /\ pc = "then"
    /\ state' = chat
    /\ pc' = "idle"
    /\ audio_file' = "None"
    /\ text_input' = None
    /\ voice' = "alloy"
    /\ stt_text' = None
    /\ messages' = <<>>
    /\ user_text' = <<>>
    /\ bot_text' = <<>>
    /\ tts_path' = NoPath
    /\ calls' = <<>>
    /\ ttsArg' = <<>>
    /\ raised' = {}
    /\ UNCHANGED <<chat, audio_out, TODO, session, handler, toolResult>>

Next ==
    \/ \E a \in AudioFiles, t \in TextInputs, v \in Voices :
          HandleInteraction(a, t, v)
    \/ \E tr \in TextInputs : SpeechToTextOk(tr)
    \/ \E e \in Errs : SpeechToTextFail(e)
    \/ \E task \in Tasks : AddTodo(task)
    \/ ListTodo
    \/ ClearTodo
    \/ \E out \in FinalOutputs : RunnerOk(out)
    \/ \E e \in Errs, kept \in {0, 1} : RunnerFail(e, kept)
    \/ \E u \in Uuids : TextToSpeechOk(u)
    \/ \E e \in Errs : TextToSpeechFail(e)
    \/ Return
    \/ ClearAll(TRUE)
    \/ ClearAll(FALSE)
    \/ Then

Spec == Init /\ [][Next]_vars

\* ---- observations used by the properties --------------------------------
\* the turns the current invocation has appended to the prior transcript
Added == SubSeq(messages, Len(state) + 1, Len(messages))

Roles(turns) == [i \in 1..Len(turns) |-> turns[i].role]

\* a text with nothing but whitespace in it (None counts as empty)
Blank(t) == \A i \in 1..Len(OrEmpty(t)) : OrEmpty(t)[i] \in Whitespace

CaughtIn(c) == \E r \in raised : r.call = c

Count(log, c) == Cardinality({i \in 1..Len(log) : log[i] = c})

Returned == handler = "handle_interaction" /\ pc = "ret"

\* C1: when speech_to_text raises, the returned transcript is the prior
\* transcript plus exactly one new turn, an assistant turn, no user turn is
\* added and Runner.run is never invoked.
C1_OneErrorTurn ==
    (Returned /\ CaughtIn("stt")) =>
        /\ IsPrefix(state, messages)
        /\ Roles(Added) = <<"assistant">>
        /\ Count(calls, "run") = 0

\* C2: when text_to_speech raises, the returned transcript still holds the
\* assistant reply turn appended before synthesis, followed by exactly one
\* assistant error turn, and the returned audio path is None.
C2_SynthesisFailureKeepsReply ==
    /\ (Returned /\ CaughtIn("tts")) =>
          /\ IsPrefix(state, messages)
          /\ Len(Added) = 3
          /\ Added[2] = Turn("assistant", bot_text)
          /\ bot_text = ttsArg
          /\ \E r \in raised :
                r.call = "tts" /\ Added[3] = Turn("assistant", TTS_ERROR \o r.e)
          /\ tts_path = NoPath
    /\ (handler = "handle_interaction" /\ pc = "then" /\ CaughtIn("tts")) =>
          /\ chat = messages
          /\ audio_out = NoPath

C2_Witness ==
    /\ Returned
    /\ CaughtIn("tts")
    /\ CaughtIn("run")
    /\ Len(state) > 1

\* C3: clear_all returns a transcript of exactly one turn, the assistant
\* greeting, and no audio path, and leaves the to-do list empty, whether
\* session.clear_session() succeeds or raises.
C3_ResetToGreeting ==
    /\ (handler = "clear_all" /\ pc = "then") =>
          /\ chat = <<Turn("assistant", GREETING)>>
          /\ audio_out = NoPath
          /\ TODO = <<>>
    /\ (handler = "clear_all" /\ pc = "idle") =>
          /\ state = <<Turn("assistant", GREETING)>>
          /\ audio_out = NoPath
          /\ TODO = <<>>

C3_Witness ==
    /\ handler = "clear_all"
    /\ pc = "then"
    /\ CaughtIn("clear_session")
    /\ session > 0
    /\ Len(state) > 1

\* C4: with no audio, or audio transcribed to empty text, and a text input
\* that is empty or whitespace-only, the handler returns the prior transcript
\* plus exactly one assistant turn, the prompt for input, and no audio path;
\* neither the agent nor synthesis is invoked.
EmptyInput ==
    /\ Blank(text_input)
    /\ \/ ~AudioGiven(audio_file)
       \/ AudioGiven(audio_file) /\ ~CaughtIn("stt") /\ Blank(stt_text)

C4_EmptyInputPrompt ==
    (Returned /\ EmptyInput) =>
        /\ IsPrefix(state, messages)
        /\ Added = <<Turn("assistant", PROMPT)>>
        /\ tts_path = NoPath
        /\ Count(calls, "run") = 0
        /\ Count(calls, "tts") = 0

C4_Witness ==
    /\ Returned
    /\ ~AudioGiven(audio_file)
    /\ text_input = <<Space>>
    /\ Len(state) > 1

\* C5: when the agent run raises, the handler goes on: it appends, after the
\* user turn, an assistant apology turn that is not blank and carries the
\* error detail, and text_to_speech is attempted on exactly that text.
C5_AgentFailureApology ==
    (handler = "handle_interaction" /\ CaughtIn("run")) =>
        /\ pc \in {"tts", "ret", "then"}
        /\ Len(Added) >= 2
        /\ \E r \in raised : r.call = "run" /\ bot_text = AGENT_ERROR \o r.e
        /\ ~Blank(bot_text)
        /\ \E i \in 2..Len(messages) :
              /\ messages[i] = Turn("assistant", bot_text)
              /\ messages[i - 1] = Turn("user", user_text)
        /\ Count(calls, "tts") = 1
        /\ ttsArg = bot_text

C5_Witness ==
    /\ handler = "handle_interaction"
    /\ pc = "tts"
    /\ Caught("run", <<"x">>) \in raised

\* C6: add_todo with a task that is not empty after trimming appends the
\* trimmed task as the last element, keeps the earlier elements and their
\* order (duplicates allowed), list_todo then returns that list, and the
\* count add_todo reports is the length of the list after the append.
AddTodoCalled == toolResult'.name = "add_todo" /\ toolResult' # toolResult

C6_AddThenList ==
    [][(AddTodoCalled /\ ~Blank(toolResult'.arg)) =>
          /\ Len(list_todo(TODO')) = Len(TODO) + 1
          /\ SubSeq(list_todo(TODO'), 1, Len(TODO)) = TODO
          /\ LET last == list_todo(TODO')[Len(TODO) + 1]
             IN  /\ Len(last) > 0
                 /\ last[1] \notin Whitespace
                 /\ last[Len(last)] \notin Whitespace
                 /\ \E i \in 0..Len(toolResult'.arg) :
                       SubSeq(toolResult'.arg, i + 1, i + Len(last)) = last
                       /\ Blank(SubSeq(toolResult'.arg, 1, i))
                       /\ Blank(SubSeq(toolResult'.arg, i + Len(last) + 1,
                                       Len(toolResult'.arg)))
          /\ toolResult'.count = Len(TODO')]_vars

C6_Witness ==
    /\ toolResult.name = "add_todo"
    /\ toolResult.arg = <<Space, "a">>
    /\ TODO = <<<<"a">>, <<"a">>>>
    /\ toolResult.count = 2

\* C7: add_todo with an empty or whitespace-only task leaves the to-do list
\* unchanged and returns the rejection message.
C7_BlankTaskRejected ==
    [][(AddTodoCalled /\ Blank(toolResult'.arg)) =>
          /\ TODO' = TODO
          /\ toolResult'.ret = <<"EMPTY_TASK_REJECTED">>]_vars

C7_Witness ==
    /\ toolResult.name = "add_todo"
    /\ toolResult.arg = <<Space>>
    /\ toolResult.ret = <<"EMPTY_TASK_REJECTED">>
    /\ Len(TODO) = MaxTodo

\* C8: clear_todo empties the list, so that list_todo next returns the empty
\* sequence, and leaves the transcript and the session unchanged; clear_all
\* is the step that resets the list and the transcript together.
C8_ClearTodoFrame ==
    [][/\ (toolResult'.name = "clear_todo" /\ toolResult' # toolResult) =>
             /\ list_todo(TODO') = <<>>
             /\ state' = state
             /\ chat' = chat
             /\ messages' = messages
             /\ session' = session
       /\ (TODO' = <<>> /\ TODO # <<>> /\ chat' # chat) =>
             handler' = "clear_all"]_vars

C8_Witness ==
    /\ toolResult.name = "clear_todo"
    /\ TODO = <<>>
    /\ Len(messages) > 2
    /\ session > 0

\* C9: within one invocation the external calls happen in the order
\* transcription, agent run, synthesis, each once when its stage is reached
\* and never again after a failure; synthesis is not invoked while the agent
\* stage is unfinished.
InOrder(log) ==
    \A i, j \in 1..Len(log) :
        i < j => <<log[i], log[j]>> \in
                    {<<"stt", "run">>, <<"stt", "tts">>, <<"run", "tts">>}

C9_CallsOnceInOrder ==
    /\ InOrder(calls)
    /\ pc = "stt" => calls = <<"stt">>
    /\ pc = "run" => Count(calls, "run") = 1 /\ Count(calls, "tts") = 0
    /\ pc = "tts" => Count(calls, "run") = 1 /\ Count(calls, "tts") = 1
    /\ (handler = "handle_interaction" /\ pc # "idle" /\ AudioGiven(audio_file))
          => Count(calls, "stt") = 1
    /\ (Returned /\ \E i \in 1..Len(Added) : Added[i].role = "user")
          => Count(calls, "run") = 1 /\ Count(calls, "tts") = 1

C9_Witness ==
    /\ Returned
    /\ calls = <<"stt", "run", "tts">>
    /\ CaughtIn("run")
    /\ CaughtIn("tts")

\* C10: the transcript is append-only under handle_interaction: the returned
\* transcript has the prior one as a prefix and adds one to three turns; a
\* user turn, when added, is the first added turn and is directly followed by
\* the one assistant reply turn; only clear_all shortens or replaces it.
AppendOnly ==
    /\ IsPrefix(state, messages)
    /\ Len(Added) \in 1..3
    /\ \A i \in 1..Len(Added) :
          Added[i].role = "user" =>
              /\ i = 1
              /\ Len(Added) >= 2
              /\ Added[2] = Turn("assistant", bot_text)
              /\ Len(Added) = 3 =>
                    /\ CaughtIn("tts")
                    /\ Added[3].role = "assistant"

C10_AppendOnly ==
    [][/\ (handler' = "handle_interaction" /\ pc' = "ret") => AppendOnly'
       /\ ~IsPrefix(state, state') => handler' = "clear_all"
       /\ ~IsPrefix(chat, chat') => handler' = "clear_all"
       /\ pc \in {"stt", "run", "tts", "ret"} => IsPrefix(messages, messages')]_vars

C10_Witness ==
    /\ Returned
    /\ Len(Added) = 3
    /\ Added[1].role = "user"
    /\ Len(state) > 1

\* C1 as the code has it: the failed transcription adds two assistant turns
C1_Reached ==
    /\ Returned
    /\ CaughtIn("stt")
    /\ Roles(Added) = <<"assistant", "assistant">>

====
